---- MODULE Spec2Model ----
(***************************************************************************)
(* A model of the example scripts of data-algorithms-with-pyspark and of   *)
(* their two helper modules (src/common).                                  *)
(*                                                                         *)
(* The scripts run their own functions (combiners, per-partition           *)
(* summaries, parsers) inside the engine's operators.  What the engine     *)
(* leaves open - how the records are split into partitions and in which    *)
(* order partial results meet - is a nondeterministic choice here.         *)
(*                                                                         *)
(* Numbers: Python ints are unbounded and are modelled as integers; a      *)
(* Python float is modelled as the exact rational <<n, d>> (d > 0, lowest  *)
(* terms).  Strings that a function takes apart are sequences of           *)
(* one-character strings.                                                  *)
(***************************************************************************)
EXTENDS Integers, Sequences, FiniteSets, Bags, TLC

(***************************************************************************)
(* Bounds of the model.                                                    *)
(***************************************************************************)
\* Most records in an input RDD.
MaxRecords == 3
\* Number of partitions an RDD is split into (some may be empty).
NumPartitions == 3
\* Most lines in a CSV file.
MaxRows == 5
\* Most lines in the partition handed to a mapPartitions function.
MaxLines == 3
\* Most characters in a script name drawn from NameChars.
MaxNameLen == 4
\* Most characters in a chapter or file name drawn from PathChars.
MaxPathLen == 3
\* Most rows in an edges DataFrame.
MaxEdges == 3
\* Largest n asked of find_top_n.
MaxN == 2
\* Largest num_iterations asked of run_pagerank.
MaxIterations == 2

VARIABLES
    script,     \* the script that is running
    rdd,        \* the input RDD: a sequence of partitions, each a sequence of records
    job,        \* index of the reduction the script is running, in Jobs(script)
    phase,      \* "map": before the shuffle, "reduce": merging combiners, "done"
    pool,       \* bag of (key, combiner) pairs the shuffle has delivered
    reduced,    \* per finished job: key -> final combiner
    output,     \* per finished job: key -> value after the closing mapValues
    \* load_csv_as_tuples (common/data_loader.py)
    csv_rows,       \* the file: its lines, each a sequence of characters
    skip_header,    \* the argument skip_header
    record_factory, \* the argument record_factory (the name of one of RecordFactories)
    reader_pos,     \* number of rows the csv reader has handed out
    records,        \* the local list records
    factory_calls,  \* the rows record_factory has been called with, in order
    loader_pc,      \* "start", "loop", "returned" or "raised"
    loader_result,  \* <<>> until the function returns, then <<the list returned>>
    loader_exc,     \* "" or the name of the exception that left the function
    \* count_negative_zero_positive and compute_statistics (chapter_03)
    mp_func,        \* the function mapPartitions runs on the partition
    mp_partition,   \* the partition: its lines, each a sequence of characters
    mp_pos,         \* number of lines the loop has taken from the iterator
    negative,       \* the three counters of count_negative_zero_positive
    zero,
    positive,
    numbers,        \* the list numbers of compute_statistics
    mp_out,         \* the tuples the function has yielded
    mp_pc,          \* "loop", "done" or "raised"
    mp_exc,         \* "" or the name of the exception that left the function
    \* create_spark_session (common/spark_session.py)
    script_name,    \* the argument script_name: None or Some(string)
    master,         \* the argument master
    parsed_name,    \* the local parsed_name: None or Some(string)
    app_name,       \* the local app_name, handed to builder.appName
    session,        \* None, or Some(the configuration of the session returned)
    session_pc,     \* "start", "parsed", "named" or "returned"
    \* get_chapter_data_path (common/data_loader.py)
    chapter,        \* the argument chapter, a string
    filename,       \* the argument filename, a string
    path_result,    \* None, or Some(the Path returned)
    path_pc,        \* "call" or "returned"
    \* find_triangles (chapter_06/examples/graph_basics.py)
    edges,          \* the rows of the edges DataFrame
    tri_df,         \* the DataFrame built so far, a bag of rows
    tri_pc,         \* the operator of the chain that runs next
    \* find_top_n (chapter_10/examples/top_n_minmax.py)
    top_rdd,        \* the partitions of the RDD of (url, frequency) records
    top_n,          \* the argument n
    local_tops,     \* the lists _find_top_n returned, one per partition run
    all_candidates, \* local_tops.collect()
    top_result,     \* None, or Some(the list returned)
    top_pc,         \* "partitions", "merge" or "returned"
    \* find_minmax (chapter_10/examples/top_n_minmax.py)
    mm_rdd,         \* the partitions of the RDD of text lines
    mm_tasks,       \* what minmax_per_partition did with each partition run
    partition_results, \* the collected list of (min, max, count) triples
    mm_result,      \* None, or Some(the MinMaxResult returned)
    mm_exc,         \* "" or the name of the exception that left find_minmax
    mm_pc,          \* "partitions", "reduce", "returned" or "raised"
    \* main and run_pagerank (chapter_08/examples/pagerank.py)
    edges_rdd,      \* the (source, destination) pairs read from the graph file
    links,          \* the adjacency list: source node -> list of neighbours
    ranks,          \* the RDD ranks: node -> rank
    num_iterations, \* the argument num_iterations
    pr_i,           \* iterations of the loop completed
    pr_pc           \* "build", "init", "loop" or "returned"

engineVars == <<script, rdd, job, phase, pool, reduced, output>>

loaderVars == <<csv_rows, skip_header, record_factory, reader_pos, records,
                factory_calls, loader_pc, loader_result, loader_exc>>

mpVars == <<mp_func, mp_partition, mp_pos, negative, zero, positive, numbers,
            mp_out, mp_pc, mp_exc>>

sessionVars == <<script_name, master, parsed_name, app_name, session, session_pc>>

pathVars == <<chapter, filename, path_result, path_pc>>

triangleVars == <<edges, tri_df, tri_pc>>

topVars == <<top_rdd, top_n, local_tops, all_candidates, top_result, top_pc>>

minmaxVars == <<mm_rdd, mm_tasks, partition_results, mm_result, mm_exc, mm_pc>>

pagerankVars == <<edges_rdd, links, ranks, num_iterations, pr_i, pr_pc>>

vars == <<engineVars, loaderVars, mpVars, sessionVars, pathVars, triangleVars, topVars,
          minmaxVars, pagerankVars>>

(***************************************************************************)
(* Each specification runs one script or helper; the variables of the      *)
(* others stay as they are here.                                           *)
(***************************************************************************)
IdleEngine ==
    /\ script = "" /\ rdd = <<>> /\ job = 0 /\ phase = "idle"
    /\ pool = <<>> /\ reduced = <<>> /\ output = <<>>

IdleLoader ==
    /\ csv_rows = <<>> /\ skip_header = FALSE /\ record_factory = ""
    /\ reader_pos = 0 /\ records = <<>> /\ factory_calls = <<>>
    /\ loader_pc = "idle" /\ loader_result = <<>> /\ loader_exc = ""

IdleMapPartitions ==
    /\ mp_func = "" /\ mp_partition = <<>> /\ mp_pos = 0
    /\ negative = 0 /\ zero = 0 /\ positive = 0 /\ numbers = <<>>
    /\ mp_out = <<>> /\ mp_pc = "idle" /\ mp_exc = ""

IdleSession ==
    /\ script_name = <<>> /\ master = "" /\ parsed_name = <<>>
    /\ app_name = <<>> /\ session = <<>> /\ session_pc = "idle"

IdlePath ==
    /\ chapter = <<>> /\ filename = <<>> /\ path_result = <<>> /\ path_pc = "idle"

IdleTriangles ==
    /\ edges = <<>> /\ tri_df = <<>> /\ tri_pc = "idle"

IdleTopN ==
    /\ top_rdd = <<>> /\ top_n = 0 /\ local_tops = <<>> /\ all_candidates = <<>>
    /\ top_result = <<>> /\ top_pc = "idle"

IdleMinMax ==
    /\ mm_rdd = <<>> /\ mm_tasks = <<>> /\ partition_results = <<>>
    /\ mm_result = <<>> /\ mm_exc = "" /\ mm_pc = "idle"

IdlePageRank ==
    /\ edges_rdd = <<>> /\ links = <<>> /\ ranks = <<>> /\ num_iterations = 0
    /\ pr_i = 0 /\ pr_pc = "idle"

IdleExcept(g) ==
    /\ IF g = "engine" THEN TRUE ELSE IdleEngine
    /\ IF g = "loader" THEN TRUE ELSE IdleLoader
    /\ IF g = "mapPartitions" THEN TRUE ELSE IdleMapPartitions
    /\ IF g = "session" THEN TRUE ELSE IdleSession
    /\ IF g = "path" THEN TRUE ELSE IdlePath
    /\ IF g = "triangles" THEN TRUE ELSE IdleTriangles
    /\ IF g = "top_n" THEN TRUE ELSE IdleTopN
    /\ IF g = "minmax" THEN TRUE ELSE IdleMinMax
    /\ IF g = "pagerank" THEN TRUE ELSE IdlePageRank

UnchangedExcept(g) ==
    /\ IF g = "engine" THEN TRUE ELSE UNCHANGED engineVars
    /\ IF g = "loader" THEN TRUE ELSE UNCHANGED loaderVars
    /\ IF g = "mapPartitions" THEN TRUE ELSE UNCHANGED mpVars
    /\ IF g = "session" THEN TRUE ELSE UNCHANGED sessionVars
    /\ IF g = "path" THEN TRUE ELSE UNCHANGED pathVars
    /\ IF g = "triangles" THEN TRUE ELSE UNCHANGED triangleVars
    /\ IF g = "top_n" THEN TRUE ELSE UNCHANGED topVars
    /\ IF g = "minmax" THEN TRUE ELSE UNCHANGED minmaxVars
    /\ IF g = "pagerank" THEN TRUE ELSE UNCHANGED pagerankVars

(***************************************************************************)
(* Arithmetic helpers.                                                     *)
(***************************************************************************)
Abs(n) == IF n < 0 THEN -n ELSE n

RECURSIVE Gcd(_, _)
Gcd(a, b) == IF b = 0 THEN a ELSE Gcd(b, a % b)

\* The rational n / d (d # 0) in lowest terms with a positive denominator.
Rat(n, d) ==
    LET g == Gcd(Abs(n), Abs(d))
        s == IF d < 0 THEN -1 ELSE 1
    IN  <<(s * n) \div g, (s * d) \div g>>

RatAdd(x, y) == Rat(x[1] * y[2] + y[1] * x[2], x[2] * y[2])

RatDivInt(x, k) == Rat(x[1], x[2] * k)

\* Python's round(x, 2) of the float x: the nearest multiple of 1/100, a tie
\* going to the even one.
Round2(x) ==
    LET q == (100 * x[1]) \div x[2]
        r == (100 * x[1]) % x[2]
    IN  IF 2 * r < x[2] THEN Rat(q, 100)
        ELSE IF 2 * r > x[2] THEN Rat(q + 1, 100)
        ELSE IF q % 2 = 0 THEN Rat(q, 100) ELSE Rat(q + 1, 100)

EmptyMap == [k \in {} |-> 0]

\* All sequences over S of length at most n.
SeqsUpTo(S, n) == UNION {[1..m -> S] : m \in 0..n}

(***************************************************************************)
(* chapter_01/examples/average_by_key_reducebykey.py                       *)
(***************************************************************************)
Names == {"alex", "jane"}
Cities == {"Ames"}
Scores == {-3, 2, 4}

PersonRecord == [name : Names, city : Cities, score : Scores]

to_sum_count(record) == <<record.name, <<record.score, 1>>>>

add_pairs_mutant(a, b) == <<a[1] + b[1], a[2] + 1>>

add_pairs(a, b) == <<a[1] + b[1], a[2] + b[2]>>

compute_average(sum_count) == Rat(sum_count[1], sum_count[2])

(***************************************************************************)
(* chapter_04/examples/movie_avg_rating.py                                 *)
(* The RDD handed to the reductions holds (userId, rating) pairs.          *)
(***************************************************************************)
Users == {"u1", "u2"}
\* The ratings 0.5, 3.0 and 4.0.
Ratings == {<<1, 2>>, <<3, 1>>, <<4, 1>>}

RatingRecord == Users \X Ratings

\* main, line 109: lambda x, y: (x + y) / 2
wrong_mean_mutant(x, y) == RatAdd(x, y)

wrong_mean(x, y) == RatDivInt(RatAdd(x, y), 2)

\* avg_with_reduce_by_key: lambda v: (v, 1) and lambda a, b: (a[0] + b[0], a[1] + b[1])
avg_reduce_pair(v) == <<v, 1>>

avg_reduce_func(a, b) == <<RatAdd(a[1], b[1]), a[2] + b[2]>>

\* avg_with_aggregate_by_key: zero value, seq_func, comb_func
avg_aggregate_zero_mutant == <<<<0, 1>>, 1>>

avg_aggregate_zero == <<<<0, 1>>, 0>>

avg_aggregate_seq(c, v) == <<RatAdd(c[1], v), c[2] + 1>>

avg_aggregate_comb(c1, c2) == <<RatAdd(c1[1], c2[1]), c1[2] + c2[2]>>

\* avg_with_combine_by_key: create_combiner, merge_value, merge_combiners
avg_combine_create(v) == <<v, 1>>

avg_combine_merge_value(c, v) == <<RatAdd(c[1], v), c[2] + 1>>

avg_combine_merge_combiners(c1, c2) == <<RatAdd(c1[1], c2[1]), c1[2] + c2[2]>>

\* The closing mapValues of the three: lambda sc: round(sc[0] / sc[1], 2)
avg_round(sc) == Round2(RatDivInt(sc[1], sc[2]))

(***************************************************************************)
(* chapter_04/examples/reduction_warmup.py                                 *)
(***************************************************************************)
WarmupKeys == {"alex", "jane"}
WarmupValues == {2, 3, 8}

WarmupRecord == WarmupKeys \X WarmupValues

RECURSIVE SumSeq(_)
SumSeq(s) == IF s = <<>> THEN 0 ELSE Head(s) + SumSeq(Tail(s))

\* operator.add
add(a, b) == a + b

\* sum_with_group_by_key: lambda values: sum(values)
sum_group_values_mutant(values) == Len(values)

sum_group_values(values) == SumSeq(values)

\* sum_with_aggregate_by_key: zero_value, seq_func, comb_func
sum_aggregate_zero == 0

sum_aggregate_seq(accumulator, value) == accumulator + value

sum_aggregate_comb(acc1, acc2) == acc1 + acc2

\* sum_with_combine_by_key: create_combiner, merge_value, merge_combiners
sum_combine_create(v) == v

sum_combine_merge_value(c, v) == c + v

sum_combine_merge_combiners(c1, c2) == c1 + c2

(***************************************************************************)
(* The scripts' reductions, each as the three functions of the engine's    *)
(* combineByKey: reduceByKey(f) is combineByKey(identity, f, f),           *)
(* aggregateByKey(zero, seq, comb) is combineByKey(v -> seq(zero, v), seq, *)
(* comb), and groupByKey() is combineByKey(v -> [v], append, extend).      *)
(***************************************************************************)
\* The reductions a script's main runs, in its order.
Jobs(s) ==
    CASE s = "average_by_key_reducebykey" -> <<"reduceByKey(add_pairs)">>
      [] s = "movie_avg_rating" ->
            <<"wrong_mean", "avg_with_reduce_by_key",
              "avg_with_aggregate_by_key", "avg_with_combine_by_key">>
      [] s = "reduction_warmup" ->
            <<"sum_with_reduce_by_key", "sum_with_group_by_key",
              "sum_with_aggregate_by_key", "sum_with_combine_by_key">>

\* The (key, value) pair a job's upstream map makes of an input record.
KeyValue(j, rec) ==
    CASE j = "reduceByKey(add_pairs)" -> to_sum_count(rec)
      [] j = "avg_with_reduce_by_key" -> <<rec[1], avg_reduce_pair(rec[2])>>
      [] OTHER -> rec

CreateCombiner(j, v) ==
    CASE j = "avg_with_aggregate_by_key" -> avg_aggregate_seq(avg_aggregate_zero, v)
      [] j = "avg_with_combine_by_key" -> avg_combine_create(v)
      [] j = "sum_with_group_by_key" -> <<v>>
      [] j = "sum_with_aggregate_by_key" -> sum_aggregate_seq(sum_aggregate_zero, v)
      [] j = "sum_with_combine_by_key" -> sum_combine_create(v)
      [] OTHER -> v

MergeValue(j, c, v) ==
    CASE j = "reduceByKey(add_pairs)" -> add_pairs(c, v)
      [] j = "wrong_mean" -> wrong_mean(c, v)
      [] j = "avg_with_reduce_by_key" -> avg_reduce_func(c, v)
      [] j = "avg_with_aggregate_by_key" -> avg_aggregate_seq(c, v)
      [] j = "avg_with_combine_by_key" -> avg_combine_merge_value(c, v)
      [] j = "sum_with_reduce_by_key" -> add(c, v)
      [] j = "sum_with_group_by_key" -> Append(c, v)
      [] j = "sum_with_aggregate_by_key" -> sum_aggregate_seq(c, v)
      [] j = "sum_with_combine_by_key" -> sum_combine_merge_value(c, v)

MergeCombiners(j, c1, c2) ==
    CASE j = "reduceByKey(add_pairs)" -> add_pairs(c1, c2)
      [] j = "wrong_mean" -> wrong_mean(c1, c2)
      [] j = "avg_with_reduce_by_key" -> avg_reduce_func(c1, c2)
      [] j = "avg_with_aggregate_by_key" -> avg_aggregate_comb(c1, c2)
      [] j = "avg_with_combine_by_key" -> avg_combine_merge_combiners(c1, c2)
      [] j = "sum_with_reduce_by_key" -> add(c1, c2)
      [] j = "sum_with_group_by_key" -> c1 \o c2
      [] j = "sum_with_aggregate_by_key" -> sum_aggregate_comb(c1, c2)
      [] j = "sum_with_combine_by_key" -> sum_combine_merge_combiners(c1, c2)

\* The mapValues that follows the reduction, where there is one.
MapValues(j, c) ==
    CASE j = "reduceByKey(add_pairs)" -> compute_average(c)
      [] j \in {"avg_with_reduce_by_key", "avg_with_aggregate_by_key",
                "avg_with_combine_by_key"} -> avg_round(c)
      [] j = "sum_with_group_by_key" -> sum_group_values(c)
      [] OTHER -> c

(***************************************************************************)
(* The engine: map-side combine per partition, shuffle, merge by key.      *)
(***************************************************************************)
\* One partition's combiners: its records folded in order, key by key.
MapSideCombine(j, part) ==
    LET F[i \in 0..Len(part)] ==
            IF i = 0 THEN EmptyMap
            ELSE LET kv == KeyValue(j, part[i])
                     prev == F[i - 1]
                 IN  IF kv[1] \in DOMAIN prev
                     THEN [prev EXCEPT ![kv[1]] = MergeValue(j, @, kv[2])]
                     ELSE prev @@ (kv[1] :> CreateCombiner(j, kv[2]))
    IN  F[Len(part)]

PartitionOutput(j, part) ==
    LET m == MapSideCombine(j, part) IN {<<k, m[k]>> : k \in DOMAIN m}

\* What the shuffle delivers: every partition's (key, combiner) pairs.
RECURSIVE ShuffleBag(_, _, _)
ShuffleBag(j, parts, n) ==
    IF n = 0 THEN EmptyBag
    ELSE ShuffleBag(j, parts, n - 1) (+) SetToBag(PartitionOutput(j, parts[n]))

PoolKeys == {x[1] : x \in BagToSet(pool)}

CurrentJob == Jobs(script)[job]

\* The stage before the shuffle runs on every partition.
ShuffleWrite ==
    /\ phase = "map"
    /\ pool' = ShuffleBag(CurrentJob, rdd, Len(rdd))
    /\ phase' = "reduce"
    /\ UNCHANGED <<script, rdd, job, reduced, output>>
    /\ UnchangedExcept("engine")

\* The reduce side merges two combiners of one key, whichever two meet.
MergeStep ==
    /\ phase = "reduce"
    /\ \E x \in BagToSet(pool), y \in BagToSet(pool) :
        /\ x[1] = y[1]
        /\ x # y \/ CopiesIn(x, pool) >= 2
        /\ pool' = ((pool (-) SetToBag({x})) (-) SetToBag({y}))
                      (+) SetToBag({<<x[1], MergeCombiners(CurrentJob, x[2], y[2])>>})
    /\ UNCHANGED <<script, rdd, job, phase, reduced, output>>
    /\ UnchangedExcept("engine")

\* collect(): one combiner per key is left; the closing mapValues is applied.
Collect ==
    /\ phase = "reduce"
    /\ BagCardinality(pool) = Cardinality(PoolKeys)
    /\ LET final == [k \in PoolKeys |-> (CHOOSE x \in BagToSet(pool) : x[1] = k)[2]]
       IN  /\ reduced' = Append(reduced, final)
           /\ output' = Append(output, [k \in PoolKeys |-> MapValues(CurrentJob, final[k])])
    /\ pool' = EmptyBag
    /\ IF job < Len(Jobs(script))
       THEN job' = job + 1 /\ phase' = "map"
       ELSE job' = job /\ phase' = "done"
    /\ UNCHANGED <<script, rdd>>
    /\ UnchangedExcept("engine")

EngineNext == ShuffleWrite \/ MergeStep \/ Collect

\* Every way to cut a list of records into NumPartitions consecutive slices.
Slice(recs, lo, hi) == [i \in 1..(hi - lo) |-> recs[lo + i]]

Splits(recs) ==
    LET n == Len(recs)
        Cuts == {c \in [0..NumPartitions -> 0..n] :
                    /\ c[0] = 0
                    /\ c[NumPartitions] = n
                    /\ \A p \in 1..NumPartitions : c[p - 1] <= c[p]}
    IN  {[p \in 1..NumPartitions |-> Slice(recs, c[p - 1], c[p])] : c \in Cuts}

EngineInit(s, Records) ==
    /\ script = s
    /\ \E recs \in SeqsUpTo(Records, MaxRecords) : rdd \in Splits(recs)
    /\ job = 1
    /\ phase = "map"
    /\ pool = EmptyBag
    /\ reduced = <<>>
    /\ output = <<>>
    /\ IdleExcept("engine")

(***************************************************************************)
(* What the input holds, computed from the records alone.                  *)
(***************************************************************************)
RECURSIVE Flatten(_, _)
Flatten(parts, n) == IF n = 0 THEN <<>> ELSE Flatten(parts, n - 1) \o parts[n]

AllRecords == Flatten(rdd, Len(rdd))

(***************************************************************************)
(* Specification: average_by_key_reducebykey.py                            *)
(***************************************************************************)
InitAvgByKey == EngineInit("average_by_key_reducebykey", PersonRecord)

SpecAvgByKey == InitAvgByKey /\ [][EngineNext]_vars

PersonsNamed(k) == SelectSeq(AllRecords, LAMBDA r : r.name = k)

ScoresOf(k) == [i \in 1..Len(PersonsNamed(k)) |-> PersonsNamed(k)[i].score]

NamesPresent == {AllRecords[i].name : i \in 1..Len(AllRecords)}

\* Partitions that hold a record of key k.
PartitionsWith(k, KeyOf(_)) ==
    {p \in 1..Len(rdd) : \E i \in 1..Len(rdd[p]) : KeyOf(rdd[p][i]) = k}

PersonName(r) == r.name

\* C1: however the records are split and the partial pairs merged, reduceByKey
\* with add_pairs leaves for every key present the pair (sum of the key's
\* scores, number of the key's records), and compute_average makes of it the
\* true mean; no other key appears.
C1_SumCountIsExact ==
    phase = "done" =>
        /\ DOMAIN reduced[1] = NamesPresent
        /\ DOMAIN output[1] = NamesPresent
        /\ \A k \in NamesPresent :
            /\ reduced[1][k] = <<SumSeq(ScoresOf(k)), Len(ScoresOf(k))>>
            /\ output[1][k] = Rat(SumSeq(ScoresOf(k)), Len(ScoresOf(k)))

\* A finished run in which one key had three records, not all of one score,
\* spread over at least two partitions, so that partial pairs were merged.
C1_Witness ==
    /\ phase = "done"
    /\ \E k \in NamesPresent :
        /\ Len(ScoresOf(k)) >= 3
        /\ Cardinality(PartitionsWith(k, PersonName)) >= 2
        /\ \E i, j \in 1..Len(ScoresOf(k)) : ScoresOf(k)[i] # ScoresOf(k)[j]


(***************************************************************************)
(* Specification: movie_avg_rating.py                                      *)
(***************************************************************************)
InitMovieAvg == EngineInit("movie_avg_rating", RatingRecord)

SpecMovieAvg == InitMovieAvg /\ [][EngineNext]_vars

KeysPresent == {AllRecords[i][1] : i \in 1..Len(AllRecords)}

PairsOf(k) == SelectSeq(AllRecords, LAMBDA r : r[1] = k)

\* The values of key k, in input order.
ValuesOf(k) == [i \in 1..Len(PairsOf(k)) |-> PairsOf(k)[i][2]]

RECURSIVE RatSum(_)
RatSum(s) == IF s = <<>> THEN <<0, 1>> ELSE RatAdd(Head(s), RatSum(Tail(s)))

TrueMean(k) == RatDivInt(RatSum(ValuesOf(k)), Len(ValuesOf(k)))

RECURSIVE SeqToBag(_)
SeqToBag(s) == IF s = <<>> THEN EmptyBag ELSE SetToBag({Head(s)}) (+) SeqToBag(Tail(s))

\* Every value reduceByKey with job j's function can leave for one key whose
\* values are the bag b: any two values or partial results may meet, in either
\* order, until one is left.
RECURSIVE MergeOutcomes(_, _)
MergeOutcomes(j, b) ==
    IF BagCardinality(b) <= 1 THEN BagToSet(b)
    ELSE UNION {MergeOutcomes(j, ((b (-) SetToBag({x})) (-) SetToBag({y}))
                                    (+) SetToBag({MergeCombiners(j, x, y)})) :
                    <<x, y>> \in {xy \in BagToSet(b) \X BagToSet(b) :
                                     xy[1] # xy[2] \/ CopiesIn(xy[1], b) >= 2}}

PairKey(r) == r[1]

\* C2: the pairwise mean is no safe combiner.  For every user with three or
\* more ratings that are not all equal, the partitionings and merge orders of
\* reduceByKey(lambda x, y: (x + y) / 2) lead to at least two different
\* results, one of them not the true mean (stated of the input, before the
\* first job); and what the script's run of it returns is one of those
\* results (stated when that job has been collected).
C2_PairwiseMeanDependsOnOrder ==
    \A k \in KeysPresent :
        /\ (job = 1 /\ phase = "map" /\ Len(ValuesOf(k)) >= 3
              /\ \E i, j \in 1..Len(ValuesOf(k)) : ValuesOf(k)[i] # ValuesOf(k)[j])
            => LET outcomes == MergeOutcomes("wrong_mean", SeqToBag(ValuesOf(k)))
               IN  /\ Cardinality(outcomes) >= 2
                   /\ \E r \in outcomes : r # TrueMean(k)
        /\ (job = 2 /\ phase = "map")
            => output[1][k] \in MergeOutcomes("wrong_mean", SeqToBag(ValuesOf(k)))

\* The script's run of the wrong reduction has ended, for a user with three
\* ratings, in a value that is not the user's mean rating, while another
\* merge order would have ended in another value.
C2_Witness ==
    /\ Len(output) >= 1
    /\ \E k \in KeysPresent :
        /\ Len(ValuesOf(k)) >= 3
        /\ output[1][k] # TrueMean(k)
        /\ \E r \in MergeOutcomes("wrong_mean", SeqToBag(ValuesOf(k))) : r # output[1][k]

InitWarmup == EngineInit("reduction_warmup", WarmupRecord)

SpecWarmup == InitWarmup /\ [][EngineNext]_vars

\* C4: whatever the input and its partitioning, the four reductions return
\* the same keys and, for each key, the sum of the key's values.
C4_FourSumsAgree ==
    phase = "done" =>
        \A j \in 1..4 :
            /\ DOMAIN output[j] = KeysPresent
            /\ \A k \in KeysPresent : output[j][k] = SumSeq(ValuesOf(k))

\* All four have run on a key whose values lie in at least two partitions,
\* one of which holds two of them.
C4_Witness ==
    /\ phase = "done"
    /\ \E k \in KeysPresent :
        /\ Len(ValuesOf(k)) >= 3
        /\ Cardinality(PartitionsWith(k, PairKey)) = 2
        /\ \E i, j \in 1..Len(ValuesOf(k)) : ValuesOf(k)[i] # ValuesOf(k)[j]


(***************************************************************************)
(* Python's None, and a value that is not None.                            *)
(***************************************************************************)
None == <<>>

Some(v) == <<v>>

(***************************************************************************)
(* Strings as sequences of characters.                                     *)
(***************************************************************************)
DigitChars == <<"0", "1", "2", "3", "4", "5", "6", "7", "8", "9">>

IsDigit(c) == \E i \in 1..10 : DigitChars[i] = c

DigitValue(c) == (CHOOSE i \in 1..10 : DigitChars[i] = c) - 1

RECURSIVE DecimalValue(_)
DecimalValue(ds) ==
    IF ds = <<>> THEN 0
    ELSE 10 * DecimalValue(SubSeq(ds, 1, Len(ds) - 1)) + DigitValue(ds[Len(ds)])

\* str.strip(): leading and trailing blanks removed.
RECURSIVE Strip(_)
Strip(str) ==
    IF str = <<>> THEN str
    ELSE IF Head(str) = " " THEN Strip(Tail(str))
    ELSE IF str[Len(str)] = " " THEN Strip(SubSeq(str, 1, Len(str) - 1))
    ELSE str

\* int(str): blanks around, an optional sign, then one or more decimal digits;
\* anything else is a ValueError.  (The strings of this model hold no
\* underscore between digits.)
IntDigits(str) ==
    LET t == Strip(str)
    IN  IF t # <<>> /\ Head(t) \in {"+", "-"} THEN Tail(t) ELSE t

IntParses(str) ==
    /\ IntDigits(str) # <<>>
    /\ \A i \in 1..Len(IntDigits(str)) : IsDigit(IntDigits(str)[i])

IntOf(str) ==
    IF Head(Strip(str)) = "-" THEN -DecimalValue(IntDigits(str))
    ELSE DecimalValue(IntDigits(str))

\* str.split(sep) for a one-character separator.
RECURSIVE Split(_, _)
Split(str, sep) ==
    IF \A i \in 1..Len(str) : str[i] # sep THEN <<str>>
    ELSE LET i == CHOOSE n \in 1..Len(str) :
                      str[n] = sep /\ \A m \in 1..(n - 1) : str[m] # sep
         IN  <<SubSeq(str, 1, i - 1)>> \o Split(SubSeq(str, i + 1, Len(str)), sep)

(***************************************************************************)
(* common/data_loader.py: load_csv_as_tuples                               *)
(***************************************************************************)
\* The lines a file is made of: an empty line, the header "n,v", the data
\* lines "a,1" and "b,20", and the one-field line "a".
CsvLines ==
    { <<>>,
      <<"n", ",", "v">>,
      <<"a", ",", "1">>,
      <<"b", ",", "2", "0">>,
      <<"a">> }

\* csv.reader: an empty line is the row [], any other line (no quote is among
\* the characters) is cut at its commas.
CsvRow(line) == IF line = <<>> THEN <<>> ELSE Split(line, ",")

\* The factories of tests/test_common.py:
\*   "pair":     lambda a, b: (a, b)
\*   "name_int": lambda name, value: (name, int(value))
RecordFactories == {"pair", "name_int"}

\* The exception the factory raises on a row ("" when it raises none).
FactoryRaises(f, row) ==
    IF Len(row) # 2 THEN "TypeError"
    ELSE IF f = "name_int" /\ ~IntParses(row[2]) THEN "ValueError"
    ELSE ""

FactoryRecord(f, row) ==
    IF f = "name_int" THEN <<row[1], IntOf(row[2])>> ELSE <<row[1], row[2]>>

\* Lines 48-58: the file is opened, records = [], and with skip_header the
\* reader's first row, if there is one, is consumed.
LoaderBegin_mutant ==
    /\ loader_pc = "start"
    /\ reader_pos' = 0
    /\ records' = <<>>
    /\ loader_pc' = "loop"
    /\ UNCHANGED <<csv_rows, skip_header, record_factory, factory_calls,
                   loader_result, loader_exc>>
    /\ UnchangedExcept("loader")

LoaderBegin ==
    /\ loader_pc = "start"
    /\ reader_pos' = IF skip_header /\ Len(csv_rows) >= 1 THEN 1 ELSE 0
    /\ records' = <<>>
    /\ loader_pc' = "loop"
    /\ UNCHANGED <<csv_rows, skip_header, record_factory, factory_calls,
                   loader_result, loader_exc>>
    /\ UnchangedExcept("loader")

\* Lines 60-63, one round of the loop: an empty row is passed over; on any
\* other row the factory is called, and its record is appended or its
\* exception leaves the function.
LoaderRow_no_empty_check ==
    /\ loader_pc = "loop"
    /\ reader_pos < Len(csv_rows)
    /\ LET row == CsvRow(csv_rows[reader_pos + 1])
       IN  /\ reader_pos' = reader_pos + 1
           /\ factory_calls' = Append(factory_calls, row)
           /\ IF FactoryRaises(record_factory, row) # ""
              THEN /\ loader_pc' = "raised"
                   /\ loader_exc' = FactoryRaises(record_factory, row)
                   /\ UNCHANGED records
              ELSE /\ records' = Append(records, FactoryRecord(record_factory, row))
                   /\ UNCHANGED <<loader_pc, loader_exc>>
    /\ UNCHANGED <<csv_rows, skip_header, record_factory, loader_result>>
    /\ UnchangedExcept("loader")

LoaderRow_swallow ==
    /\ loader_pc = "loop"
    /\ reader_pos < Len(csv_rows)
    /\ LET row == CsvRow(csv_rows[reader_pos + 1])
       IN  /\ reader_pos' = reader_pos + 1
           /\ IF row = <<>>
              THEN UNCHANGED <<records, factory_calls>>
              ELSE /\ factory_calls' = Append(factory_calls, row)
                   /\ IF FactoryRaises(record_factory, row) # ""
                      THEN UNCHANGED records
                      ELSE records' = Append(records, FactoryRecord(record_factory, row))
    /\ UNCHANGED <<csv_rows, skip_header, record_factory, loader_pc, loader_exc,
                   loader_result>>
    /\ UnchangedExcept("loader")

LoaderRow ==
    /\ loader_pc = "loop"
    /\ reader_pos < Len(csv_rows)
    /\ LET row == CsvRow(csv_rows[reader_pos + 1])
       IN  /\ reader_pos' = reader_pos + 1
           /\ IF row = <<>>
              THEN UNCHANGED <<records, factory_calls, loader_pc, loader_exc>>
              ELSE /\ factory_calls' = Append(factory_calls, row)
                   /\ IF FactoryRaises(record_factory, row) # ""
                      THEN /\ loader_pc' = "raised"
                           /\ loader_exc' = FactoryRaises(record_factory, row)
                           /\ UNCHANGED records
                      ELSE /\ records' = Append(records, FactoryRecord(record_factory, row))
                           /\ UNCHANGED <<loader_pc, loader_exc>>
    /\ UNCHANGED <<csv_rows, skip_header, record_factory, loader_result>>
    /\ UnchangedExcept("loader")

\* Line 65: the reader is exhausted, the list is returned.
LoaderReturn ==
    /\ loader_pc = "loop"
    /\ reader_pos = Len(csv_rows)
    /\ loader_result' = <<records>>
    /\ loader_pc' = "returned"
    /\ UNCHANGED <<csv_rows, skip_header, record_factory, reader_pos, records,
                   factory_calls, loader_exc>>
    /\ UnchangedExcept("loader")

LoaderNext == LoaderBegin \/ LoaderRow \/ LoaderReturn

InitLoader ==
    /\ csv_rows \in SeqsUpTo(CsvLines, MaxRows)
    /\ skip_header \in BOOLEAN
    /\ record_factory \in RecordFactories
    /\ reader_pos = 0
    /\ records = <<>>
    /\ factory_calls = <<>>
    /\ loader_pc = "start"
    /\ loader_result = <<>>
    /\ loader_exc = ""
    /\ IdleExcept("loader")

SpecLoader == InitLoader /\ [][LoaderNext]_vars

\* The rows of the file, and those left once the header row is skipped.
FileRows == [i \in 1..Len(csv_rows) |-> CsvRow(csv_rows[i])]

DataRows == IF skip_header /\ FileRows # <<>> THEN Tail(FileRows) ELSE FileRows

NonEmptyDataRows == SelectSeq(DataRows, LAMBDA r : r # <<>>)

\* C5: the list returned holds, in file order, record_factory of every
\* non-empty row, the file's first row being left out exactly when skip_header
\* is set; without skip_header a (non-empty) first row gives the first record.
C5_RecordsAreNonEmptyRows ==
    loader_pc = "returned" =>
        /\ loader_result =
              <<[i \in 1..Len(NonEmptyDataRows) |->
                    FactoryRecord(record_factory, NonEmptyDataRows[i])]>>
        /\ (~skip_header /\ FileRows # <<>> /\ FileRows[1] # <<>>)
              => loader_result[1][1] = FactoryRecord(record_factory, FileRows[1])
        /\ (skip_header /\ FileRows # <<>>)
              => Len(loader_result[1])
                    = Len(SelectSeq(SubSeq(FileRows, 2, Len(FileRows)), LAMBDA r : r # <<>>))

\* A file whose first row is not empty was loaded with skip_header and gave
\* two records or more, the first row not among them.
C5_Witness ==
    /\ loader_pc = "returned"
    /\ skip_header
    /\ Len(FileRows) >= 3
    /\ FileRows[1] # <<>>
    /\ Len(loader_result[1]) >= 2
    /\ Len(loader_result[1]) = Cardinality({i \in 2..Len(FileRows) : FileRows[i] # <<>>})

\* C6: record_factory is never called with an empty row, and the number of
\* records returned is the number of non-empty rows after the header skip.
C6_EmptyRowsSkipped ==
    /\ \A i \in 1..Len(factory_calls) : factory_calls[i] # <<>>
    /\ loader_pc = "returned" =>
          Len(loader_result[1]) = Cardinality({i \in 1..Len(DataRows) : DataRows[i] # <<>>})

\* The file of the test: a header, a data row, an empty row, another data
\* row, an empty row at the end; two records are returned.
C6_Witness ==
    /\ loader_pc = "returned"
    /\ skip_header
    /\ Len(FileRows) = 5
    /\ FileRows[1] # <<>> /\ FileRows[2] # <<>> /\ FileRows[4] # <<>>
    /\ FileRows[3] = <<>> /\ FileRows[5] = <<>>
    /\ Len(loader_result[1]) = 2

\* Some non-empty data row makes the factory raise.
SomeRowRaises ==
    \E i \in 1..Len(DataRows) :
        DataRows[i] # <<>> /\ FactoryRaises(record_factory, DataRows[i]) # ""

\* C7: when record_factory raises on a row, its exception leaves
\* load_csv_as_tuples and no list is returned; a file with such a row is never
\* answered with a list.
C7_FactoryErrorPropagates ==
    /\ loader_pc = "raised" =>
          /\ loader_result = <<>>
          /\ loader_exc # ""
          /\ loader_exc = FactoryRaises(record_factory, factory_calls[Len(factory_calls)])
    /\ SomeRowRaises => loader_pc # "returned"
    /\ loader_pc = "returned" => loader_exc = ""

\* The factory raised after a record had been built from an earlier row.
C7_Witness ==
    /\ loader_pc = "raised"
    /\ Len(records) >= 1
    /\ loader_result = <<>>
    /\ loader_exc = "ValueError"


(***************************************************************************)
(* chapter_03/examples/mappartitions_transformation.py                     *)
(***************************************************************************)
\* The lines of a partition: "-5", "0", "10", " 7 ", and four that are no
\* integer: "", "x", "1x" and "-".
NumberLines ==
    { <<"-", "5">>, <<"0">>, <<"1", "0">>, <<" ", "7", " ">>,
      <<>>, <<"x">>, <<"1", "x">>, <<"-">> }

SeqMin(ns) == CHOOSE m \in {ns[i] : i \in 1..Len(ns)} : \A i \in 1..Len(ns) : m <= ns[i]

SeqMax(ns) == CHOOSE m \in {ns[i] : i \in 1..Len(ns)} : \A i \in 1..Len(ns) : m >= ns[i]

\* Lines 51-61, one round of the loop of count_negative_zero_positive:
\* int(num_str.strip()) decides the counter; its ValueError is caught.
NzpLine ==
    /\ mp_func = "count_negative_zero_positive"
    /\ mp_pc = "loop"
    /\ mp_pos < Len(mp_partition)
    /\ mp_pos' = mp_pos + 1
    /\ LET num_str == mp_partition[mp_pos + 1]
       IN  IF IntParses(Strip(num_str))
           THEN LET num == IntOf(Strip(num_str))
                IN  /\ negative' = IF num < 0 THEN negative + 1 ELSE negative
                    /\ positive' = IF num < 0 THEN positive
                                   ELSE IF num > 0 THEN positive + 1 ELSE positive
                    /\ zero' = IF num < 0 \/ num > 0 THEN zero ELSE zero + 1
           ELSE UNCHANGED <<negative, zero, positive>>
    /\ UNCHANGED <<mp_func, mp_partition, numbers, mp_out, mp_pc, mp_exc>>
    /\ UnchangedExcept("mapPartitions")

\* Line 63: yield (negative, zero, positive)
NzpYield ==
    /\ mp_func = "count_negative_zero_positive"
    /\ mp_pc = "loop"
    /\ mp_pos = Len(mp_partition)
    /\ mp_out' = Append(mp_out, <<negative, zero, positive>>)
    /\ mp_pc' = "done"
    /\ UNCHANGED <<mp_func, mp_partition, mp_pos, negative, zero, positive,
                   numbers, mp_exc>>
    /\ UnchangedExcept("mapPartitions")

\* Lines 82-86, one round of the loop of compute_statistics.
StatsLine_no_try ==
    /\ mp_func = "compute_statistics"
    /\ mp_pc = "loop"
    /\ mp_pos < Len(mp_partition)
    /\ mp_pos' = mp_pos + 1
    /\ LET num_str == mp_partition[mp_pos + 1]
       IN  IF IntParses(Strip(num_str))
           THEN /\ numbers' = Append(numbers, IntOf(Strip(num_str)))
                /\ UNCHANGED <<mp_pc, mp_exc>>
           ELSE /\ mp_pc' = "raised"
                /\ mp_exc' = "ValueError"
                /\ UNCHANGED numbers
    /\ UNCHANGED <<mp_func, mp_partition, negative, zero, positive, mp_out>>
    /\ UnchangedExcept("mapPartitions")

StatsLine ==
    /\ mp_func = "compute_statistics"
    /\ mp_pc = "loop"
    /\ mp_pos < Len(mp_partition)
    /\ mp_pos' = mp_pos + 1
    /\ LET num_str == mp_partition[mp_pos + 1]
       IN  IF IntParses(Strip(num_str))
           THEN numbers' = Append(numbers, IntOf(Strip(num_str)))
           ELSE UNCHANGED numbers
    /\ UNCHANGED <<mp_func, mp_partition, negative, zero, positive, mp_out,
                   mp_pc, mp_exc>>
    /\ UnchangedExcept("mapPartitions")

\* Lines 88-91: one tuple, (min, max, sum, len) or (None, None, 0, 0).
StatsYield ==
    /\ mp_func = "compute_statistics"
    /\ mp_pc = "loop"
    /\ mp_pos = Len(mp_partition)
    /\ mp_out' = Append(mp_out,
                    IF numbers # <<>>
                    THEN <<Some(SeqMin(numbers)), Some(SeqMax(numbers)),
                           SumSeq(numbers), Len(numbers)>>
                    ELSE <<None, None, 0, 0>>)
    /\ mp_pc' = "done"
    /\ UNCHANGED <<mp_func, mp_partition, mp_pos, negative, zero, positive,
                   numbers, mp_exc>>
    /\ UnchangedExcept("mapPartitions")

MapPartitionsNext == NzpLine \/ NzpYield \/ StatsLine \/ StatsYield

InitMapPartitions ==
    /\ mp_func \in {"count_negative_zero_positive", "compute_statistics"}
    /\ mp_partition \in SeqsUpTo(NumberLines, MaxLines)
    /\ mp_pos = 0
    /\ negative = 0 /\ zero = 0 /\ positive = 0
    /\ numbers = <<>>
    /\ mp_out = <<>>
    /\ mp_pc = "loop"
    /\ mp_exc = ""
    /\ IdleExcept("mapPartitions")

SpecMapPartitions == InitMapPartitions /\ [][MapPartitionsNext]_vars

\* The integers among the first n lines of the partition, in order.
ParsedUpTo(n) ==
    LET good == SelectSeq(SubSeq(mp_partition, 1, n), LAMBDA l : IntParses(Strip(l)))
    IN  [i \in 1..Len(good) |-> IntOf(Strip(good[i]))]

CountWhere(ns, Test(_)) == Cardinality({i \in 1..Len(ns) : Test(ns[i])})

IsNegative(n) == n < 0

IsZero(n) == n = 0

IsPositive(n) == n > 0

\* C8: a line that is no integer raises nothing and changes nothing: after any
\* number of lines the counters and the list of numbers are those of the
\* integers among the lines taken, and at the end exactly one tuple has been
\* yielded, computed from the integers alone: (0, 0, 0) and (None, None, 0, 0)
\* when there is none.
C8_UnparseableLinesSkipped ==
    LET seen == ParsedUpTo(mp_pos)
        all == ParsedUpTo(Len(mp_partition))
    IN  /\ mp_exc = "" /\ mp_pc # "raised"
        /\ mp_func = "count_negative_zero_positive" =>
              /\ <<negative, zero, positive>> =
                    <<CountWhere(seen, IsNegative), CountWhere(seen, IsZero),
                      CountWhere(seen, IsPositive)>>
              /\ mp_pc = "done" => mp_out = <<<<negative, zero, positive>>>> /\ seen = all
        /\ mp_func = "compute_statistics" =>
              /\ numbers = seen
              /\ mp_pc = "done" =>
                    mp_out = <<IF all = <<>> THEN <<None, None, 0, 0>>
                               ELSE <<Some(SeqMin(all)), Some(SeqMax(all)),
                                      SumSeq(all), Len(all)>>>>
        /\ mp_pc # "done" => mp_out = <<>>

\* compute_statistics has yielded the summary of a partition of three lines,
\* one of them no integer and two of them integers.
C8_Witness ==
    /\ mp_func = "compute_statistics"
    /\ mp_pc = "done"
    /\ Len(mp_partition) = 3
    /\ Len(numbers) = 2
    /\ mp_out[1][4] = 2


(***************************************************************************)
(* common/spark_session.py                                                 *)
(***************************************************************************)
LowerChars ==
    <<"a", "b", "c", "d", "e", "f", "g", "h", "i", "j", "k", "l", "m",
      "n", "o", "p", "q", "r", "s", "t", "u", "v", "w", "x", "y", "z">>

UpperChars ==
    <<"A", "B", "C", "D", "E", "F", "G", "H", "I", "J", "K", "L", "M",
      "N", "O", "P", "Q", "R", "S", "T", "U", "V", "W", "X", "Y", "Z">>

\* str.upper() and str.lower() of one character.
Upper(c) ==
    IF \E i \in 1..26 : LowerChars[i] = c
    THEN UpperChars[CHOOSE i \in 1..26 : LowerChars[i] = c] ELSE c

Lower(c) ==
    IF \E i \in 1..26 : UpperChars[i] = c
    THEN LowerChars[CHOOSE i \in 1..26 : UpperChars[i] = c] ELSE c

\* str.capitalize(): the first character upper case, the others lower case.
Capitalize(word) ==
    [i \in 1..Len(word) |-> IF i = 1 THEN Upper(word[i]) ELSE Lower(word[i])]

RECURSIVE Join(_)
Join(words) == IF words = <<>> THEN <<>> ELSE Head(words) \o Join(Tail(words))

Contains(str, c) == \E i \in 1..Len(str) : str[i] = c

EndsWith(str, suffix) ==
    /\ Len(str) >= Len(suffix)
    /\ SubSeq(str, Len(str) - Len(suffix) + 1, Len(str)) = suffix

\* pathlib: the components of a path; empty components and "." are dropped.
PathParts(str) == SelectSeq(Split(str, "/"), LAMBDA part : part # <<>> /\ part # <<".">>)

\* Path(str).name: the last component, "" when there is none.
PathName(str) ==
    IF PathParts(str) = <<>> THEN <<>> ELSE PathParts(str)[Len(PathParts(str))]

\* Path(str).stem: the name up to its last dot, when that dot is neither the
\* first nor the last character of the name.
PathStem(str) ==
    LET name == PathName(str)
        dots == {i \in 1..Len(name) : name[i] = "."}
        last == IF dots = {} THEN 0 ELSE CHOOSE i \in dots : \A j \in dots : j <= i
    IN  IF 1 < last /\ last < Len(name) THEN SubSeq(name, 1, last - 1) ELSE name

APP_NAME_PREFIX == <<"D", "a", "t", "a", "A", "l", "g", "o", "r", "i", "t", "h", "m", "s">>

_snake_to_title(snake_str) ==
    Join([i \in 1..Len(Split(snake_str, "_")) |-> Capitalize(Split(snake_str, "_")[i])])

_parse_script_identifier_mutant(script_id) ==
    IF script_id = None THEN None
    ELSE IF Contains(script_id[1], "/")
         THEN Some(_snake_to_title(PathStem(script_id[1])))
         ELSE script_id

_parse_script_identifier(script_id) ==
    IF script_id = None THEN None
    ELSE IF Contains(script_id[1], "/") \/ EndsWith(script_id[1], <<".", "p", "y">>)
         THEN Some(_snake_to_title(PathStem(script_id[1])))
         ELSE script_id

\* "if script_name:" holds for a string that is not empty.
_build_app_name(name) ==
    IF name # None /\ name[1] # <<>>
    THEN APP_NAME_PREFIX \o <<"-">> \o name[1]
    ELSE APP_NAME_PREFIX

\* Lines 121-123.
ParseScriptName ==
    /\ session_pc = "start"
    /\ parsed_name' = _parse_script_identifier(script_name)
    /\ session_pc' = "parsed"
    /\ UNCHANGED <<script_name, master, app_name, session>>
    /\ UnchangedExcept("session")

\* Line 124.
BuildAppName ==
    /\ session_pc = "parsed"
    /\ app_name' = _build_app_name(parsed_name)
    /\ session_pc' = "named"
    /\ UNCHANGED <<script_name, master, parsed_name, session>>
    /\ UnchangedExcept("session")

\* Lines 127-152: the builder is configured and a session is made (no session
\* is active before: a script calls create_spark_session once, first).
GetOrCreate ==
    /\ session_pc = "named"
    /\ session' = Some([appName |-> app_name,
                        master |-> master,
                        shuffle_partitions |-> "4",
                        driver_memory |-> "2g",
                        showConsoleProgress |-> "false",
                        logLevel |-> "ERROR"])
    /\ session_pc' = "returned"
    /\ UNCHANGED <<script_name, master, parsed_name, app_name>>
    /\ UnchangedExcept("session")

SessionNext == ParseScriptName \/ BuildAppName \/ GetOrCreate

NameChars == {"a", "B", "_", "/", ".", "p", "y"}

\* The script names of the docstrings.
ExampleNames ==
    { <<"a", "v", "e", "r", "a", "g", "e", "_", "b", "y", "_", "k", "e", "y", "_",
        "r", "e", "d", "u", "c", "e", "b", "y", "k", "e", "y", ".", "p", "y">>,
      <<"/", "x", "/", "m", "a", "p", "_", "v", "s", "_", "f", "l", "a", "t", "m", "a", "p",
        ".", "p", "y">>,
      <<"M", "y", "C", "u", "s", "t", "o", "m", "N", "a", "m", "e">> }

InitSession ==
    /\ script_name \in {None} \cup {Some(n) : n \in SeqsUpTo(NameChars, MaxNameLen) \cup ExampleNames}
    /\ master = "local[*]"
    /\ parsed_name = None
    /\ app_name = <<>>
    /\ session = None
    /\ session_pc = "start"
    /\ IdleExcept("session")

SpecSession == InitSession /\ [][SessionNext]_vars

IsPathLike(str) == Contains(str, "/") \/ EndsWith(str, <<".", "p", "y">>)

\* The name the claim gives the application.
ClaimedAppName(sn) ==
    IF sn = None THEN APP_NAME_PREFIX
    ELSE IF IsPathLike(sn[1])
         THEN APP_NAME_PREFIX \o <<"-">> \o _snake_to_title(PathStem(sn[1]))
         ELSE APP_NAME_PREFIX \o <<"-">> \o sn[1]

\* The part of the name after the hyphen: the TitleCase of the stem for a
\* path, the script name itself otherwise.
NamePart(sn) ==
    IF IsPathLike(sn[1]) THEN _snake_to_title(PathStem(sn[1])) ELSE sn[1]

\* C9 as stated: 'DataAlgorithms' for None, otherwise 'DataAlgorithms-' and
\* the TitleCase of the stem (a path) or the script name unchanged (any other
\* string).  It fails for the empty string and for a path whose stem has no
\* character but underscores.
C9_AsStated ==
    session_pc = "returned" => session[1].appName = ClaimedAppName(script_name)

\* C9, amended: 'DataAlgorithms' when script_name is None or the name part is
\* empty; otherwise 'DataAlgorithms-' followed by the name part, which is the
\* TitleCase of the file stem when script_name contains '/' or ends with
\* '.py' and script_name unchanged in every other case.
C9_AppName ==
    session_pc = "returned" =>
        /\ session[1].appName = app_name
        /\ app_name =
              IF script_name = None \/ NamePart(script_name) = <<>>
              THEN APP_NAME_PREFIX
              ELSE APP_NAME_PREFIX \o <<"-">> \o NamePart(script_name)
        /\ script_name = Some(<<"a", "v", "e", "r", "a", "g", "e", "_", "b", "y", "_",
                                "k", "e", "y", "_", "r", "e", "d", "u", "c", "e", "b",
                                "y", "k", "e", "y", ".", "p", "y">>)
              => app_name = APP_NAME_PREFIX \o
                    <<"-", "A", "v", "e", "r", "a", "g", "e", "B", "y", "K", "e", "y",
                      "R", "e", "d", "u", "c", "e", "b", "y", "k", "e", "y">>

\* A session was made for a path whose stem is only an underscore: the name
\* part is empty and the application is called 'DataAlgorithms'.
C9_Witness ==
    /\ session_pc = "returned"
    /\ script_name = Some(<<"_", ".", "p", "y">>)
    /\ session[1].appName = APP_NAME_PREFIX

(***************************************************************************)
(* common/data_loader.py: get_chapter_data_path                            *)
(***************************************************************************)
\* The number of slashes a string starts with.
LeadingSlashes(str) ==
    Cardinality({n \in 1..Len(str) : \A i \in 1..n : str[i] = "/"})

\* pathlib (POSIX): the root of a path is "/" , "//" for exactly two leading
\* slashes, and "" for a relative path.
PathRoot(str) ==
    CASE LeadingSlashes(str) = 0 -> <<>>
      [] LeadingSlashes(str) = 2 -> <<"/", "/">>
      [] OTHER -> <<"/">>

\* Path(str)
Path(str) == [root |-> PathRoot(str), parts |-> PathParts(str)]

\* path / str: an absolute segment replaces the path, a relative one is
\* appended component by component.
Div(path, str) ==
    IF PathRoot(str) # <<>> THEN Path(str)
    ELSE [root |-> path.root, parts |-> path.parts \o PathParts(str)]

\* path.parent
Parent(path) ==
    IF path.parts = <<>> THEN path
    ELSE [root |-> path.root, parts |-> SubSeq(path.parts, 1, Len(path.parts) - 1)]

\* path.name
Name(path) == IF path.parts = <<>> THEN <<>> ELSE path.parts[Len(path.parts)]

is_absolute(path) == path.root # <<>>

\* __file__ of the imported module common.data_loader, an absolute path.
ModuleFile ==
    [root |-> <<"/">>,
     parts |-> << <<"r", "e", "p", "o">>, <<"s", "r", "c">>,
                  <<"c", "o", "m", "m", "o", "n">>,
                  <<"d", "a", "t", "a", "_", "l", "o", "a", "d", "e", "r", ".", "p", "y">> >>]

PROJECT_ROOT == Parent(Parent(Parent(ModuleFile)))

get_chapter_data_path_mutant(ch, fn) ==
    Div(Div(Div(Path(<<"s", "r", "c">>), ch), <<"d", "a", "t", "a">>), fn)

get_chapter_data_path(ch, fn) ==
    Div(Div(Div(Div(PROJECT_ROOT, <<"s", "r", "c">>), ch), <<"d", "a", "t", "a">>), fn)

GetChapterDataPath ==
    /\ path_pc = "call"
    /\ path_result' = Some(get_chapter_data_path(chapter, filename))
    /\ path_pc' = "returned"
    /\ UNCHANGED <<chapter, filename>>
    /\ UnchangedExcept("path")

PathNext == GetChapterDataPath

PathChars == {"c", "/", "."}

\* The arguments of the tests.
ExampleChapters ==
    { <<"c", "h", "a", "p", "t", "e", "r", "_", "0", "1">>,
      <<"c", "h", "a", "p", "t", "e", "r", "_", "0", "2">> }

ExampleFiles ==
    { <<"p", "e", "o", "p", "l", "e", ".", "c", "s", "v">>,
      <<"t", "e", "s", "t", ".", "t", "x", "t">> }

InitPath ==
    /\ chapter \in SeqsUpTo(PathChars, MaxPathLen) \cup ExampleChapters
    /\ filename \in SeqsUpTo(PathChars, MaxPathLen) \cup ExampleFiles
    /\ path_result = None
    /\ path_pc = "call"
    /\ IdleExcept("path")

SpecPath == InitPath /\ [][PathNext]_vars

\* A string that names one path component.
IsSingleComponent(str) == str # <<>> /\ str # <<".">> /\ ~Contains(str, "/")

\* C10 as stated: for every chapter and file name the path returned is
\* absolute and its last component is filename.  It fails for a file name
\* that is empty, is ".", or contains "/".
C10_AsStated ==
    path_pc = "returned" =>
        /\ is_absolute(path_result[1])
        /\ Name(path_result[1]) = filename

\* C10, amended: for every chapter name and every file name that is a single
\* path component (not empty, not ".", without "/") the path returned is
\* absolute, is PROJECT_ROOT / "src" / chapter / "data" / filename (the
\* components of PROJECT_ROOT and "src", unless chapter is absolute, then
\* those of chapter, then "data" and filename), and its last component is
\* filename.
C10_ChapterDataPath ==
    (path_pc = "returned" /\ IsSingleComponent(filename)) =>
        /\ is_absolute(path_result[1])
        /\ Name(path_result[1]) = filename
        /\ path_result[1].root =
              IF PathRoot(chapter) = <<>> THEN PROJECT_ROOT.root ELSE PathRoot(chapter)
        /\ path_result[1].parts =
              (IF PathRoot(chapter) = <<>>
               THEN PROJECT_ROOT.parts \o << <<"s", "r", "c">> >> ELSE <<>>)
              \o PathParts(chapter) \o << <<"d", "a", "t", "a">>, filename >>

\* get_chapter_data_path("chapter_02", "test.txt") has returned
\* /repo/src/chapter_02/data/test.txt.
C10_Witness ==
    /\ path_pc = "returned"
    /\ chapter = <<"c", "h", "a", "p", "t", "e", "r", "_", "0", "2">>
    /\ filename = <<"t", "e", "s", "t", ".", "t", "x", "t">>
    /\ path_result[1] =
          [root |-> <<"/">>,
           parts |-> << <<"r", "e", "p", "o">>, <<"s", "r", "c">>, chapter,
                        <<"d", "a", "t", "a">>, filename >>]

(***************************************************************************)
(* chapter_06/examples/graph_basics.py: find_triangles                     *)
(***************************************************************************)
\* The place of a lower-case letter in the alphabet.
CharOrd(c) == CHOOSE i \in 1..26 : LowerChars[i] = c

\* s < t on string columns: the order of the first character that differs,
\* a proper prefix coming first.
StrLess(str, other) ==
    \E k \in 1..Len(other) :
        /\ \A i \in 1..(k - 1) : i <= Len(str) /\ str[i] = other[i]
        /\ k > Len(str) \/ CharOrd(str[k]) < CharOrd(other[k])

\* The ids of the vertices.
VertexIds == { <<"a">>, <<"a", "b">>, <<"b">> }

Relationships == {"friend", "follows"}

\* The rows an edges DataFrame can hold (columns src, dst, relationship).
EdgeRows == [src : VertexIds, dst : VertexIds, relationship : Relationships]

\* The empty DataFrame, and a DataFrame as the bag of its rows.
EmptyDf == <<>>

RECURSIVE SumOver(_, _)
SumOver(df, rows) ==
    IF rows = {} THEN 0
    ELSE LET r == CHOOSE r \in rows : TRUE IN df[r] + SumOver(df, rows \ {r})

\* The columns selected from a joined row (e1, e2, e3).
TriangleRow(r) == [vertex_a |-> r[1].src, vertex_b |-> r[1].dst, vertex_c |-> r[2].dst]

\* df.distinct()
Distinct(df) == [r \in DOMAIN df |-> 1]

\* Line 119-120: edges.alias("e1").join(edges.alias("e2"), e1.dst == e2.src)
TriJoinE2 ==
    /\ tri_pc = "join_e2"
    /\ LET e == SeqToBag(edges)
       IN  tri_df' = [r \in {<<x, y>> \in (DOMAIN e) \X (DOMAIN e) : x.dst = y.src}
                         |-> e[r[1]] * e[r[2]]]
    /\ tri_pc' = "join_e3"
    /\ UNCHANGED edges
    /\ UnchangedExcept("triangles")

\* Line 121-123: .join(edges.alias("e3"), (e2.dst == e3.src) & (e3.dst == e1.src))
TriJoinE3 ==
    /\ tri_pc = "join_e3"
    /\ LET e == SeqToBag(edges)
           matches == {<<p, z>> \in (DOMAIN tri_df) \X (DOMAIN e) :
                          p[2].dst = z.src /\ z.dst = p[1].src}
       IN  tri_df' = [r \in {<<m[1][1], m[1][2], m[2]>> : m \in matches}
                         |-> tri_df[<<r[1], r[2]>>] * e[r[3]]]
    /\ tri_pc' = "filter_e1"
    /\ UNCHANGED edges
    /\ UnchangedExcept("triangles")

\* Line 124: .filter(e1.src < e1.dst)
TriFilterE1 ==
    /\ tri_pc = "filter_e1"
    /\ tri_df' = [r \in {x \in DOMAIN tri_df : StrLess(x[1].src, x[1].dst)} |-> tri_df[r]]
    /\ tri_pc' = "filter_e2"
    /\ UNCHANGED edges
    /\ UnchangedExcept("triangles")

\* Line 125: .filter(e2.src < e2.dst)
TriFilterE2 ==
    /\ tri_pc = "filter_e2"
    /\ tri_df' = [r \in {x \in DOMAIN tri_df : StrLess(x[2].src, x[2].dst)} |-> tri_df[r]]
    /\ tri_pc' = "select"
    /\ UNCHANGED edges
    /\ UnchangedExcept("triangles")

\* Line 126-130: .select(e1.src as vertex_a, e1.dst as vertex_b, e2.dst as vertex_c)
TriSelect ==
    /\ tri_pc = "select"
    /\ tri_df' = [t \in {TriangleRow(x) : x \in DOMAIN tri_df} |->
                      SumOver(tri_df, {x \in DOMAIN tri_df : TriangleRow(x) = t})]
    /\ tri_pc' = "distinct"
    /\ UNCHANGED edges
    /\ UnchangedExcept("triangles")

\* Line 131: .distinct(), and the DataFrame is returned.
TriDistinct ==
    /\ tri_pc = "distinct"
    /\ tri_df' = Distinct(tri_df)
    /\ tri_pc' = "returned"
    /\ UNCHANGED edges
    /\ UnchangedExcept("triangles")

TrianglesNext ==
    TriJoinE2 \/ TriJoinE3 \/ TriFilterE1 \/ TriFilterE2 \/ TriSelect \/ TriDistinct

InitTriangles ==
    /\ edges \in SeqsUpTo(EdgeRows, MaxEdges)
    /\ tri_df = EmptyDf
    /\ tri_pc = "join_e2"
    /\ IdleExcept("triangles")

SpecTriangles == InitTriangles /\ [][TrianglesNext]_vars

\* There is an edge from x to y.
HasEdge(x, y) == \E i \in 1..Len(edges) : edges[i].src = x /\ edges[i].dst = y

\* The triangles of the graph: the sets of three vertices that some
\* a -> b -> c -> a runs through.
TrianglesOf ==
    {{a, b, c} : <<a, b, c>> \in
        {t \in VertexIds \X VertexIds \X VertexIds :
            /\ Cardinality({t[1], t[2], t[3]}) = 3
            /\ HasEdge(t[1], t[2]) /\ HasEdge(t[2], t[3]) /\ HasEdge(t[3], t[1])}}

RowVertices(r) == {r.vertex_a, r.vertex_b, r.vertex_c}

\* C11 as stated: for every edge set, find_triangles returns each triangle
\* of the graph exactly once (and nothing that is not a triangle).  The code
\* misses every triangle whose only cycle runs against the order of the ids.
C11_EachTriangleOnce ==
    tri_pc = "returned" =>
        /\ \A t \in TrianglesOf :
              /\ \E r \in DOMAIN tri_df : RowVertices(r) = t
              /\ SumOver(tri_df, {r \in DOMAIN tri_df : RowVertices(r) = t}) = 1
        /\ \A r \in DOMAIN tri_df : RowVertices(r) \in TrianglesOf

(***************************************************************************)
(* chapter_10/examples/top_n_minmax.py: find_top_n                         *)
(***************************************************************************)
\* (freq, url) < (freq, url): Python compares tuples item by item.
TupleLess(x, y) == x[1] < y[1] \/ (x[1] = y[1] /\ StrLess(x[2], y[2]))

\* heapq._siftdown; positions count from 0 as in the source.
RECURSIVE _siftdown(_, _, _, _)
_siftdown(heap, startpos, pos, newitem) ==
    IF pos > startpos /\ TupleLess(newitem, heap[((pos - 1) \div 2) + 1])
    THEN _siftdown([heap EXCEPT ![pos + 1] = heap[((pos - 1) \div 2) + 1]],
                   startpos, (pos - 1) \div 2, newitem)
    ELSE [heap EXCEPT ![pos + 1] = newitem]

\* heapq._siftup: the smaller child moves up until a leaf is reached, then
\* the item sifts down from there.
RECURSIVE _siftup(_, _, _, _)
_siftup(heap, startpos, pos, newitem) ==
    LET childpos == 2 * pos + 1
        rightpos == childpos + 1
        smaller  == IF rightpos < Len(heap) /\ ~TupleLess(heap[childpos + 1], heap[rightpos + 1])
                    THEN rightpos ELSE childpos
    IN  IF childpos < Len(heap)
        THEN _siftup([heap EXCEPT ![pos + 1] = heap[smaller + 1]], startpos, smaller, newitem)
        ELSE _siftdown(heap, startpos, pos, newitem)

heappush(heap, item) == _siftdown(Append(heap, item), 0, Len(heap), item)

heapreplace(heap, item) == _siftup([heap EXCEPT ![1] = item], 0, 0, item)

\* The loop body without its elif branch: a full heap never changes.
HeapOffer_no_replace(heap, n, item) ==
    IF Len(heap) < n THEN heappush(heap, item) ELSE heap

\* Lines 48-51 and 70-73: the body of both loops.  With a full heap and
\* n = 0 the source reads heap[0] of an empty list; n >= 1 here.
HeapOffer(heap, n, item) ==
    IF Len(heap) < n THEN heappush(heap, item)
    ELSE IF item[1] > heap[1][1] THEN heapreplace(heap, item)
    ELSE heap

\* Lines 46-52: the records of a partition are (url, freq) pairs.
RECURSIVE _find_top_n(_, _, _)
_find_top_n(heap, partition, n) ==
    IF partition = <<>> THEN heap
    ELSE _find_top_n(HeapOffer(heap, n, <<Head(partition)[2], Head(partition)[1]>>),
                     Tail(partition), n)

\* Lines 68-73: the same loop over the collected (freq, url) candidates.
RECURSIVE MergeCandidates(_, _, _)
MergeCandidates(heap, candidates, n) ==
    IF candidates = <<>> THEN heap
    ELSE MergeCandidates(HeapOffer(heap, n, Head(candidates)), Tail(candidates), n)

\* Where x goes in a list that is sorted in descending order.
RECURSIVE InsertDesc(_, _)
InsertDesc(sorted, x) ==
    IF sorted = <<>> THEN <<x>>
    ELSE IF TupleLess(Head(sorted), x) THEN <<x>> \o sorted
    ELSE <<Head(sorted)>> \o InsertDesc(Tail(sorted), x)

RECURSIVE InsertAsc(_, _)
InsertAsc(sorted, x) ==
    IF sorted = <<>> THEN <<x>>
    ELSE IF TupleLess(x, Head(sorted)) THEN <<x>> \o sorted
    ELSE <<Head(sorted)>> \o InsertAsc(Tail(sorted), x)

\* sorted(heap), the reverse flag forgotten.
RECURSIVE sorted_ascending(_)
sorted_ascending(heap) ==
    IF heap = <<>> THEN <<>> ELSE InsertAsc(sorted_ascending(Tail(heap)), Head(heap))

\* sorted(heap, reverse=True)
RECURSIVE sorted_reverse(_)
sorted_reverse(heap) ==
    IF heap = <<>> THEN <<>> ELSE InsertDesc(sorted_reverse(Tail(heap)), Head(heap))

\* TopNResult(url, freq)
TopNResult(url, freq) == [url |-> url, frequency |-> freq]

\* Line 64, one task of rdd.mapPartitions(top_n_per_partition(n)): the next
\* partition is handed to _find_top_n, which returns its heap.
TopNPartition ==
    /\ top_pc = "partitions"
    /\ Len(local_tops) < Len(top_rdd)
    /\ local_tops' = Append(local_tops, _find_top_n(<<>>, top_rdd[Len(local_tops) + 1], top_n))
    /\ UNCHANGED <<top_rdd, top_n, all_candidates, top_result, top_pc>>
    /\ UnchangedExcept("top_n")

\* Line 65: collect() lists the partitions' elements in partition order.
TopNCollect ==
    /\ top_pc = "partitions"
    /\ Len(local_tops) = Len(top_rdd)
    /\ all_candidates' = Flatten(local_tops, Len(local_tops))
    /\ top_pc' = "merge"
    /\ UNCHANGED <<top_rdd, top_n, local_tops, top_result>>
    /\ UnchangedExcept("top_n")

\* Lines 68-75: the final merge, the sort and the return.
TopNMerge ==
    /\ top_pc = "merge"
    /\ LET heap == MergeCandidates(<<>>, all_candidates, top_n)
           desc == sorted_reverse(heap)
       IN  top_result' = Some([i \in 1..Len(desc) |-> TopNResult(desc[i][2], desc[i][1])])
    /\ top_pc' = "returned"
    /\ UNCHANGED <<top_rdd, top_n, local_tops, all_candidates>>
    /\ UnchangedExcept("top_n")

TopNNext == TopNPartition \/ TopNCollect \/ TopNMerge

Urls == { <<"a">>, <<"b">> }

Frequencies == {1, 2}

\* (url, frequency) records, as parse_url_line makes them.
UrlRecord == Urls \X Frequencies

InitTopN ==
    /\ \E recs \in SeqsUpTo(UrlRecord, MaxRecords) : top_rdd \in Splits(recs)
    /\ top_n \in 1..MaxN
    /\ local_tops = <<>>
    /\ all_candidates = <<>>
    /\ top_result = None
    /\ top_pc = "partitions"
    /\ IdleExcept("top_n")

SpecTopN == InitTopN /\ [][TopNNext]_vars

\* All records of the input, and their frequencies as a bag.
TopRecords == Flatten(top_rdd, Len(top_rdd))

FrequencyBag(recs) == SeqToBag([i \in 1..Len(recs) |-> recs[i][2]])

ResultFrequencies == [i \in 1..Len(top_result[1]) |-> top_result[1][i].frequency]

\* C12: for every n >= 1, every collection of records and every partitioning,
\* find_top_n returns min(n, number of records) results; their frequencies
\* are, as a multiset, the n largest of the input (a sub-multiset of the
\* input's frequencies that no left-out frequency exceeds), in descending
\* order.
C12_TopNFrequencies ==
    top_pc = "returned" =>
        LET got  == SeqToBag(ResultFrequencies)
            all  == FrequencyBag(TopRecords)
            rest == all (-) got
        IN  /\ Len(top_result[1]) = IF top_n < Len(TopRecords) THEN top_n ELSE Len(TopRecords)
            /\ got \sqsubseteq all
            /\ \A f \in BagToSet(rest), g \in BagToSet(got) : f <= g
            /\ \A i \in 1..(Len(ResultFrequencies) - 1) :
                  ResultFrequencies[i] >= ResultFrequencies[i + 1]

\* Three records in two partitions, n = 2: a larger frequency arrived after
\* the heap was full and replaced the smallest, and 2 of 3 were returned.
C12_Witness ==
    /\ top_pc = "returned"
    /\ top_n = 2
    /\ TopRecords = << << <<"a">>, 1 >>, << <<"b">>, 1 >>, << <<"a">>, 2 >> >>
    /\ Len(top_rdd[1]) = 1 /\ Len(top_rdd[2]) = 2
    /\ ResultFrequencies = <<2, 1>>

\* find_top_n as a function of the partitions and n (lines 64-75).
FindTopNOf(parts, n) ==
    LET tops == [p \in 1..Len(parts) |-> _find_top_n(<<>>, parts[p], n)]
        desc == sorted_reverse(MergeCandidates(<<>>, Flatten(tops, Len(tops)), n))
    IN  [i \in 1..Len(desc) |-> TopNResult(desc[i][2], desc[i][1])]

\* The orders a list of records can be put in.
Reorderings(recs) ==
    {[i \in 1..Len(recs) |-> recs[p[i]]] :
        p \in {q \in [1..Len(recs) -> 1..Len(recs)] :
                  \A i, j \in 1..Len(recs) : q[i] = q[j] => i = j}}

\* The (freq, url) pairs of a bag, largest first.
RECURSIVE BagDesc(_)
BagDesc(b) ==
    IF BagToSet(b) = {} THEN <<>>
    ELSE LET m == CHOOSE x \in BagToSet(b) : \A y \in BagToSet(b) : ~TupleLess(x, y)
         IN  <<m>> \o BagDesc(b (-) SetToBag({m}))

\* All records as (freq, url) pairs, largest first: fixed by the records as a
\* multiset, whatever their order and partitioning.
RankedRecords ==
    BagDesc(SeqToBag([i \in 1..Len(TopRecords) |-> <<TopRecords[i][2], TopRecords[i][1]>>]))

\* Different URLs tie at the n-th largest frequency and not all of the tied
\* records are among the first n.
TieAcrossCut ==
    /\ Len(RankedRecords) > top_n
    /\ RankedRecords[top_n][1] = RankedRecords[top_n + 1][1]
    /\ \E i \in 1..Len(RankedRecords) :
          /\ RankedRecords[i][1] = RankedRecords[top_n][1]
          /\ RankedRecords[i][2] # RankedRecords[top_n][2]

\* C13 as stated: the list returned is the one find_top_n returns for the
\* same records and the same n under every other order and partitioning,
\* ties at the n-th largest frequency included.  It fails when different
\* URLs tie across the cut: the URLs that arrive first are kept.
C13_SameUnderAnyPartitioning ==
    top_pc = "returned" =>
        \A recs \in Reorderings(TopRecords) : \A parts \in Splits(recs) :
            FindTopNOf(parts, top_n) = top_result[1]

\* C13, amended: for the same records and the same n, find_top_n returns the
\* same list - the first n of the records ranked by (frequency, url),
\* largest first - under every partitioning and every order of the records,
\* provided no different URLs tie across the cut at the n-th largest
\* frequency.
C13_SameWithoutTieAcrossCut ==
    (top_pc = "returned" /\ ~TieAcrossCut) =>
        /\ Len(top_result[1]) = IF top_n < Len(RankedRecords) THEN top_n ELSE Len(RankedRecords)
        /\ \A i \in 1..Len(top_result[1]) :
              top_result[1][i] = TopNResult(RankedRecords[i][2], RankedRecords[i][1])

\* Two URLs with equal frequency, both among the n = 2 results, were read in
\* ascending order from different partitions and returned largest URL first;
\* a third record with a smaller frequency was left out.
C13_Witness ==
    /\ top_pc = "returned"
    /\ top_n = 2
    /\ top_rdd = << << << <<"a">>, 2 >> >>, << << <<"b">>, 2 >> >>, << << <<"a">>, 1 >> >> >>
    /\ top_result[1] = << TopNResult(<<"b">>, 2), TopNResult(<<"a">>, 2) >>

(***************************************************************************)
(* chapter_10/examples/top_n_minmax.py: minmax_per_partition, find_minmax  *)
(***************************************************************************)
Min(a, b) == IF a <= b THEN a ELSE b

Max(a, b) == IF a >= b THEN a ELSE b

\* Line 129: the tokens of a record; int() raises ValueError on a token that
\* is not an integer.
RecordParses(record) ==
    \A i \in 1..Len(Split(record, ",")) : IntParses(Split(record, ",")[i])

RecordNumbers(record) ==
    [i \in 1..Len(Split(record, ",")) |-> IntOf(Split(record, ",")[i])]

\* Lines 123-126: the locals before the loop.
MinMaxLocals == [local_min |-> 0, local_max |-> 0, local_count |-> 0,
                 first_time |-> TRUE, exc |-> ""]

\* The loop body with local_count += 1: records counted, not numbers.
MinMaxRecord_counts_records(st, record) ==
    IF ~RecordParses(record) THEN [st EXCEPT !.exc = "ValueError"]
    ELSE LET nums == RecordNumbers(record)
         IN  [local_min   |-> IF st.first_time THEN SeqMin(nums)
                              ELSE Min(st.local_min, SeqMin(nums)),
              local_max   |-> IF st.first_time THEN SeqMax(nums)
                              ELSE Max(st.local_max, SeqMax(nums)),
              local_count |-> st.local_count + 1,
              first_time  |-> FALSE,
              exc         |-> ""]

\* The loop body with the ValueError caught and the record skipped.
MinMaxRecord_skips_malformed(st, record) ==
    IF ~RecordParses(record) THEN st
    ELSE LET nums == RecordNumbers(record)
         IN  [local_min   |-> IF st.first_time THEN SeqMin(nums)
                              ELSE Min(st.local_min, SeqMin(nums)),
              local_max   |-> IF st.first_time THEN SeqMax(nums)
                              ELSE Max(st.local_max, SeqMax(nums)),
              local_count |-> st.local_count + Len(nums),
              first_time  |-> FALSE,
              exc         |-> ""]

\* Lines 128-140, one round of the loop.
MinMaxRecord(st, record) ==
    IF ~RecordParses(record) THEN [st EXCEPT !.exc = "ValueError"]
    ELSE LET nums == RecordNumbers(record)
         IN  [local_min   |-> IF st.first_time THEN SeqMin(nums)
                              ELSE Min(st.local_min, SeqMin(nums)),
              local_max   |-> IF st.first_time THEN SeqMax(nums)
                              ELSE Max(st.local_max, SeqMax(nums)),
              local_count |-> st.local_count + Len(nums),
              first_time  |-> FALSE,
              exc         |-> ""]

\* The return without the first_time test: a triple for every partition.
MinMaxReturn_always(st) == << <<st.local_min, st.local_max, st.local_count>> >>

\* Lines 142-144.
MinMaxReturn(st) ==
    IF ~st.first_time THEN << <<st.local_min, st.local_max, st.local_count>> >> ELSE <<>>

\* The loop: it ends at the first record that raises.
RECURSIVE MinMaxLoop(_, _)
MinMaxLoop(st, partition) ==
    IF partition = <<>> \/ st.exc # "" THEN st
    ELSE MinMaxLoop(MinMaxRecord(st, Head(partition)), Tail(partition))

\* minmax_per_partition: the exception that leaves it ("" for none) and the
\* list it returns.
minmax_per_partition(partition) ==
    LET st == MinMaxLoop(MinMaxLocals, partition)
    IN  IF st.exc # "" THEN [exc |-> st.exc, out |-> <<>>]
        ELSE [exc |-> "", out |-> MinMaxReturn(st)]

\* MinMaxResult(min_val, max_val, total_count)
MinMaxResult(lo, hi, cnt) == [min_val |-> lo, max_val |-> hi, total_count |-> cnt]

\* Lines 158-161: the loop over partition_results[1:].
RECURSIVE MinMaxFold(_, _)
MinMaxFold(acc, results) ==
    IF results = <<>> THEN acc
    ELSE MinMaxFold(MinMaxResult(Min(acc.min_val, Head(results)[1]),
                                 Max(acc.max_val, Head(results)[2]),
                                 acc.total_count + Head(results)[3]),
                    Tail(results))

\* Line 152, one task of rdd.mapPartitions(minmax_per_partition): the next
\* partition is handed to minmax_per_partition; an exception in a task fails
\* the job and leaves find_minmax.
MinMaxPartition ==
    /\ mm_pc = "partitions"
    /\ Len(mm_tasks) < Len(mm_rdd)
    /\ LET task == minmax_per_partition(mm_rdd[Len(mm_tasks) + 1])
       IN  /\ mm_tasks' = Append(mm_tasks, task)
           /\ mm_exc' = task.exc
           /\ mm_pc' = IF task.exc # "" THEN "raised" ELSE mm_pc
    /\ UNCHANGED <<mm_rdd, partition_results, mm_result>>
    /\ UnchangedExcept("minmax")

\* Line 152: collect() lists the triples in partition order.
MinMaxCollect ==
    /\ mm_pc = "partitions"
    /\ Len(mm_tasks) = Len(mm_rdd)
    /\ partition_results' =
          Flatten([p \in 1..Len(mm_tasks) |-> mm_tasks[p].out], Len(mm_tasks))
    /\ mm_pc' = "reduce"
    /\ UNCHANGED <<mm_rdd, mm_tasks, mm_result, mm_exc>>
    /\ UnchangedExcept("minmax")

\* Lines 154-163: partition_results[0] of an empty list is an IndexError.
MinMaxReduce ==
    /\ mm_pc = "reduce"
    /\ IF partition_results = <<>>
       THEN /\ mm_exc' = "IndexError"
            /\ mm_pc' = "raised"
            /\ UNCHANGED mm_result
       ELSE /\ mm_result' = Some(MinMaxFold(MinMaxResult(partition_results[1][1],
                                                          partition_results[1][2],
                                                          partition_results[1][3]),
                                             Tail(partition_results)))
            /\ mm_pc' = "returned"
            /\ UNCHANGED mm_exc
    /\ UNCHANGED <<mm_rdd, mm_tasks, partition_results>>
    /\ UnchangedExcept("minmax")

MinMaxNext == MinMaxPartition \/ MinMaxCollect \/ MinMaxReduce

\* The lines of a numbers file: "3", "1,5", "-2,4", an empty line, "4,x".
MinMaxLines ==
    { <<"3">>, <<"1", ",", "5">>, <<"-", "2", ",", "4">>, <<>>, <<"4", ",", "x">> }

InitMinMax ==
    /\ \E recs \in SeqsUpTo(MinMaxLines, MaxRecords) : mm_rdd \in Splits(recs)
    /\ mm_tasks = <<>>
    /\ partition_results = <<>>
    /\ mm_result = None
    /\ mm_exc = ""
    /\ mm_pc = "partitions"
    /\ IdleExcept("minmax")

SpecMinMax == InitMinMax /\ [][MinMaxNext]_vars

MinMaxRecords == Flatten(mm_rdd, Len(mm_rdd))

\* All numbers of all records (of an input whose records all parse).
RECURSIVE NumbersOf(_)
NumbersOf(recs) ==
    IF recs = <<>> THEN <<>> ELSE RecordNumbers(Head(recs)) \o NumbersOf(Tail(recs))

AllRecordsParse == \A i \in 1..Len(MinMaxRecords) : RecordParses(MinMaxRecords[i])

C16_MalformedTokenRaises ==
    \A p \in 1..Len(mm_tasks) :
        (\E i \in 1..Len(mm_rdd[p]) : ~RecordParses(mm_rdd[p][i])) =>
            /\ mm_tasks[p].exc = "ValueError"
            /\ mm_tasks[p].out = <<>>
            /\ mm_pc = "raised"
            /\ mm_result = None

\* A partition held "3" and then an empty line: the task raised ValueError
\* and emitted nothing, although a record before the empty line had parsed.
C16_Witness ==
    /\ Len(mm_tasks) >= 1
    /\ mm_rdd[Len(mm_tasks)] = << <<"3">>, <<>> >>
    /\ mm_tasks[Len(mm_tasks)] = [exc |-> "ValueError", out |-> <<>>]

(***************************************************************************)
(* chapter_08/examples/pagerank.py: build_adjacency_list, run_pagerank     *)
(* Ranks are floats in the source and exact fractions here.                *)
(***************************************************************************)
RatMul(x, y) == Rat(x[1] * y[1], x[2] * y[2])

\* DAMPING_FACTOR = 0.85
DAMPING_FACTOR == <<17, 20>>

\* The lists that hold each element of a set once.
Orderings(S) ==
    {q \in [1..Cardinality(S) -> S] : \A i, j \in 1..Cardinality(S) : q[i] = q[j] => i = j}

\* edges_rdd.distinct()
DistinctEdges(edges_seq) == {edges_seq[i] : i \in 1..Len(edges_seq)}

\* The adjacency lists distinct().groupByKey().mapValues(list) can give: one
\* entry per source node, its neighbours in the order the shuffle brings them.
build_adjacency_list(edges_seq) ==
    LET es      == DistinctEdges(edges_seq)
        sources == {e[1] : e \in es}
    IN  {l \in [sources -> UNION {Orderings({e[2] : e \in {x \in es : x[1] = s}}) : s \in sources}] :
            \A s \in sources : l[s] \in Orderings({e[2] : e \in {x \in es : x[1] = s}})}

\* Lines 68-70: an equal share of the rank for each neighbour.
compute_contributions(node_data) ==
    LET neighbors == node_data[2][1]
        rank      == node_data[2][2]
    IN  [i \in 1..Len(neighbors) |-> <<neighbors[i], RatDivInt(rank, Len(neighbors))>>]

\* Line 79: (1 - d) + d * rank
apply_damping(rank) ==
    RatAdd(RatAdd(<<1, 1>>, Rat(-DAMPING_FACTOR[1], DAMPING_FACTOR[2])),
           RatMul(DAMPING_FACTOR, rank))

\* Line 92: links.join(ranks).flatMap(compute_contributions), for the keys
\* that links and ranks both hold.
RECURSIVE Contributions(_, _, _)
Contributions(lk, rk, keys) ==
    IF keys = {} THEN <<>>
    ELSE LET k == CHOOSE k \in keys : TRUE
         IN  compute_contributions(<<k, <<lk[k], rk[k]>>>>) \o Contributions(lk, rk, keys \ {k})

\* Line 95: reduceByKey(lambda a, b: a + b).mapValues(apply_damping)
SumByKey(contributions) ==
    [node \in {contributions[i][1] : i \in 1..Len(contributions)} |->
        LET mine == SelectSeq(contributions, LAMBDA c : c[1] = node)
        IN  apply_damping(RatSum([i \in 1..Len(mine) |-> mine[i][2]]))]

\* Line 112 of main: links = build_adjacency_list(edges_rdd)
BuildAdjacencyList ==
    /\ pr_pc = "build"
    /\ links' \in build_adjacency_list(edges_rdd)
    /\ pr_pc' = "init"
    /\ UNCHANGED <<edges_rdd, ranks, num_iterations, pr_i>>
    /\ UnchangedExcept("pagerank")

\* Line 88: ranks = links.mapValues(lambda _: 1.0)
InitRanks ==
    /\ pr_pc = "init"
    /\ ranks' = [node \in DOMAIN links |-> <<1, 1>>]
    /\ pr_i' = 0
    /\ pr_pc' = "loop"
    /\ UNCHANGED <<edges_rdd, links, num_iterations>>
    /\ UnchangedExcept("pagerank")

\* Lines 90-95, one iteration.
PageRankIteration ==
    /\ pr_pc = "loop"
    /\ pr_i < num_iterations
    /\ ranks' = SumByKey(Contributions(links, ranks, DOMAIN links \cap DOMAIN ranks))
    /\ pr_i' = pr_i + 1
    /\ UNCHANGED <<edges_rdd, links, num_iterations, pr_pc>>
    /\ UnchangedExcept("pagerank")

\* Line 97.
PageRankReturn ==
    /\ pr_pc = "loop"
    /\ pr_i = num_iterations
    /\ pr_pc' = "returned"
    /\ UNCHANGED <<edges_rdd, links, ranks, num_iterations, pr_i>>
    /\ UnchangedExcept("pagerank")

PageRankNext == BuildAdjacencyList \/ InitRanks \/ PageRankIteration \/ PageRankReturn

PageNodes == {"A", "B", "C"}

InitPageRank ==
    /\ edges_rdd \in SeqsUpTo(PageNodes \X PageNodes, MaxEdges)
    /\ links = <<>>
    /\ ranks = <<>>
    /\ num_iterations \in 0..MaxIterations
    /\ pr_i = 0
    /\ pr_pc = "build"
    /\ IdleExcept("pagerank")

SpecPageRank == InitPageRank /\ [][PageRankNext]_vars

\* The nodes of the graph: the sources and the destinations of its edges.
GraphNodes ==
    {edges_rdd[i][1] : i \in 1..Len(edges_rdd)} \cup {edges_rdd[i][2] : i \in 1..Len(edges_rdd)}

\* C17 as stated: before the first iteration every node of the graph, source
\* or destination of an edge, has rank 1.0.  The code gives a rank only to
\* the keys of links, the nodes with an outgoing edge.
C17_EveryNodeStartsAtOne ==
    (pr_pc = "loop" /\ pr_i = 0) =>
        \A node \in GraphNodes : node \in DOMAIN ranks /\ ranks[node] = <<1, 1>>

====
